---- MODULE Spec2Model ----
(***************************************************************************)
(* Model of src/main.py: the FastAPI backend of Corazon Studio AI.         *)
(*                                                                         *)
(* The pipeline endpoints (/reels, /reels-voice, /tts, /image,             *)
(* /video-cine-voice) are modelled as per-request state machines over a    *)
(* shared output directory OUT_DIR; the pure helpers (mux_video_audio,     *)
(* _auto_emojis) are modelled as operators and exercised by their own      *)
(* specifications.                                                         *)
(***************************************************************************)
EXTENDS Integers, Sequences, FiniteSets, TLC

(***************************************************************************)
(* Bounds of the model.                                                    *)
(***************************************************************************)
\* number of requests in flight at the same time (SpecConc)
NumReqs == 2
\* durations a client may send are -MaxDuration..MaxDuration
MaxDuration == 1

\* texts are made of at most MaxWords words
MaxWords == 2
\* _auto_emojis is applied at most MaxApplications times in a row
MaxApplications == 2

\* _wrap_text is given texts of at most MaxWrapWords words
MaxWrapWords == 10
\* and a max_width of 1..MaxWrapWidth
MaxWrapWidth == 5

\* the frame loop is run for durations -MaxFrameDuration..MaxFrameDuration
MaxFrameDuration == 3

\* fps = 24 in make_reels_video_styled
fps == 24

Reqs == 1..NumReqs
Durations == (0 - MaxDuration)..MaxDuration

None == [none |-> TRUE]

Endpoints == {"reels", "reels_voice", "tts", "image", "video_cine_voice"}
Modes == {"narrator_only", "narrator_plus_character"}
MusicKinds == {"none", "soft", "cinematic", "happy"}

\* The defaults of the request models (duration, mode, music).
DefaultDuration(ep) == IF ep = "reels_voice" THEN 6 ELSE 5
DefaultMode == "narrator_only"
DefaultMusic == "soft"

\* VideoRequest: the fields of /reels the pipeline reads.  duration is a
\* plain int: pydantic accepts every integer.
VideoRequest ==
    { [ep |-> "reels", duration |-> d, mode |-> DefaultMode, music |-> m] :
        d \in Durations, m \in MusicKinds }

\* ReelsVoiceRequest
ReelsVoiceRequest ==
    { [ep |-> "reels_voice", duration |-> d, mode |-> mo, music |-> m] :
        d \in Durations, mo \in Modes, m \in MusicKinds }

\* CineVoiceRequest (its duration is only forwarded to the remote provider)
CineVoiceRequest ==
    { [ep |-> "video_cine_voice", duration |-> DefaultDuration("video_cine_voice"),
       mode |-> mo, music |-> m] : mo \in Modes, m \in MusicKinds }

\* TTSRequest
TTSRequest ==
    { [ep |-> "tts", duration |-> 0, mode |-> DefaultMode, music |-> "none"] }

\* ImageRequest
ImageRequest ==
    { [ep |-> "image", duration |-> 0, mode |-> DefaultMode, music |-> "none"] }

Inputs == VideoRequest \cup ReelsVoiceRequest \cup CineVoiceRequest
            \cup TTSRequest \cup ImageRequest

NoReq == [ep |-> "", duration |-> 0, mode |-> "", music |-> ""]

VARIABLES
    env,        \* configuration: OPENAI_API_KEY / FAL_KEY set, music assets present
    req,        \* req[r]: the request body of request r
    pc,         \* pc[r]: where the handler of request r stands
    loc,        \* loc[r]: the handler's local variables (paths)
    uuids,      \* uuids[r]: how many uuid4() calls request r has made
    fs,         \* OUT_DIR: file name -> [content, writers]
    resp,       \* resp[r]: the HTTP response of request r
    trace,      \* trace[r]: the stages request r has completed, in order
    reads,      \* reads[r]: the OUT_DIR files request r has read as input
    fin,        \* input of the helper under test (SpecMux, SpecEmoji)
    fout        \* its output

vars == <<env, req, pc, loc, uuids, fs, resp, trace, reads, fin, fout>>
pipeVars == <<env, req, pc, loc, uuids, fs, resp, trace, reads>>

(***************************************************************************)
(* File names and paths.                                                   *)
(***************************************************************************)
\* uuid.uuid4(): a value no other call returns.  The value is named by the
\* call that produced it: the k-th call made by request r.
uuid4(r, k) == <<r, k>>

\* f"{prefix}{uuid.uuid4().hex}.{ext}" under OUT_DIR (file_path)
OutName(prefix, u, ext) == [dir |-> "out", prefix |-> prefix, tok |-> u, ext |-> ext]

\* A buggy naming scheme: one fixed name per extension.
safe_filename_fixed(u, ext) == OutName("", <<0, 0>>, ext)

\* safe_filename(ext): f"{uuid.uuid4().hex}.{ext}"
safe_filename(u, ext) == OutName("", u, ext)

\* The music assets under ASSETS_DIR.
MUSIC_SOFT == [dir |-> "assets", prefix |-> "music_soft", tok |-> <<0, 0>>, ext |-> "mp3"]
MUSIC_CINEMATIC == [dir |-> "assets", prefix |-> "music_cinematic", tok |-> <<0, 0>>, ext |-> "mp3"]
MUSIC_HAPPY == [dir |-> "assets", prefix |-> "music_happy", tok |-> <<0, 0>>, ext |-> "mp3"]
MusicAssets == {MUSIC_SOFT, MUSIC_CINEMATIC, MUSIC_HAPPY}

\* A buggy choice: the asset's path without looking whether the file exists.
choose_music_path_unchecked(kind, assets) ==
    IF kind = "soft" THEN MUSIC_SOFT
    ELSE IF kind = "cinematic" THEN MUSIC_CINEMATIC
    ELSE IF kind = "happy" THEN MUSIC_HAPPY
    ELSE None

\* choose_music_path(kind); assets: the music files that exist on disk
choose_music_path(kind, assets) ==
    IF kind = "soft" /\ MUSIC_SOFT \in assets THEN MUSIC_SOFT
    ELSE IF kind = "cinematic" /\ MUSIC_CINEMATIC \in assets THEN MUSIC_CINEMATIC
    ELSE IF kind = "happy" /\ MUSIC_HAPPY \in assets THEN MUSIC_HAPPY
    ELSE None

(***************************************************************************)
(* The output directory.                                                   *)
(***************************************************************************)
\* path.exists()
Exists(path, files, assets) ==
    IF path.dir = "assets" THEN path \in assets ELSE path \in DOMAIN files

\* the bytes of a file
ContentOf(path, files) ==
    IF path.dir = "assets" THEN [kind |-> "music", asset |-> path.prefix]
    ELSE files[path].content

\* out_path.write_bytes(...) / a tool writing its output file, by request r
WriteFile(files, path, content, r) ==
    [n \in DOMAIN files \cup {path} |->
        IF n = path
        THEN [content |-> content,
              writers |-> (IF path \in DOMAIN files THEN files[path].writers ELSE <<>>) \o <<r>>]
        ELSE files[n]]

(***************************************************************************)
(* The media engine.                                                       *)
(***************************************************************************)
In(path, loop) == [path |-> path, loop |-> loop]

\* concat with the two inputs swapped
concat_audios_swapped(a1, a2, out_mp3) ==
    [inputs |-> <<In(a2, FALSE), In(a1, FALSE)>>,
     filter |-> "[0:a][1:a]concat=n=2:v=0:a=1[a]",
     maps |-> <<"[a]">>, shortest |-> FALSE, cv |-> "", ca |-> "libmp3lame",
     out |-> out_mp3]

\* concat_audios(a1, a2, out_mp3): the command handed to run_ffmpeg
concat_audios(a1, a2, out_mp3) ==
    [inputs |-> <<In(a1, FALSE), In(a2, FALSE)>>,
     filter |-> "[0:a][1:a]concat=n=2:v=0:a=1[a]",
     maps |-> <<"[a]">>, shortest |-> FALSE, cv |-> "", ca |-> "libmp3lame",
     out |-> out_mp3]

\* the filter graph of the voice + music case
DuckFilter == "[2:a]volume=0.25[m];[m][1:a]sidechaincompress=threshold=0.03:ratio=10:attack=20:release=250[mduck];[1:a][mduck]amix=inputs=2:duration=shortest[aout]"

\* voice + music: ducked looped music mixed with the voice
DuckMixCmd(video_path, voice_path, music_path, out_path) ==
    [inputs |-> <<In(video_path, FALSE), In(voice_path, FALSE), In(music_path, TRUE)>>,
     filter |-> DuckFilter, maps |-> <<"0:v:0", "[aout]">>,
     shortest |-> TRUE, cv |-> "copy", ca |-> "aac", out |-> out_path]

\* voice only / music only: the second input mapped as the audio stream
MapAudioCmd(video_path, audio_path, loop, out_path) ==
    [inputs |-> <<In(video_path, FALSE), In(audio_path, loop)>>,
     filter |-> "", maps |-> <<"0:v:0", "1:a:0">>,
     shortest |-> TRUE, cv |-> "copy", ca |-> "aac", out |-> out_path]

\* a compositor that also sends the no-audio case through the engine
mux_video_audio_always_engine(video_path, voice_path, music_path, out_path) ==
    IF voice_path # None /\ music_path # None THEN
        [cmds |-> <<DuckMixCmd(video_path, voice_path, music_path, out_path)>>, copies |-> <<>>]
    ELSE IF voice_path # None /\ music_path = None THEN
        [cmds |-> <<MapAudioCmd(video_path, voice_path, FALSE, out_path)>>, copies |-> <<>>]
    ELSE IF voice_path = None /\ music_path # None THEN
        [cmds |-> <<MapAudioCmd(video_path, music_path, TRUE, out_path)>>, copies |-> <<>>]
    ELSE [cmds |-> << [inputs |-> <<In(video_path, FALSE)>>, filter |-> "",
                       maps |-> <<"0:v:0">>, shortest |-> FALSE, cv |-> "libx264",
                       ca |-> "", out |-> out_path] >>,
          copies |-> <<>>]

\* mux_video_audio(video_path, voice_path, music_path, out_path): the engine
\* calls it makes (cmds) and the byte copies it makes itself (copies)
mux_video_audio(video_path, voice_path, music_path, out_path) ==
    IF voice_path # None /\ music_path # None THEN
        [cmds |-> <<DuckMixCmd(video_path, voice_path, music_path, out_path)>>, copies |-> <<>>]
    ELSE IF voice_path # None /\ music_path = None THEN
        [cmds |-> <<MapAudioCmd(video_path, voice_path, FALSE, out_path)>>, copies |-> <<>>]
    ELSE IF voice_path = None /\ music_path # None THEN
        [cmds |-> <<MapAudioCmd(video_path, music_path, TRUE, out_path)>>, copies |-> <<>>]
    ELSE [cmds |-> <<>>, copies |-> << [from |-> video_path, to |-> out_path] >>]

\* What the engine writes for a command: a function of the command and of the
\* bytes of its inputs.
EngineOutput(cmd, files) ==
    [kind |-> "ffmpeg", filter |-> cmd.filter, maps |-> cmd.maps,
     shortest |-> cmd.shortest, cv |-> cmd.cv, ca |-> cmd.ca,
     ins |-> [i \in DOMAIN cmd.inputs |->
                [bytes |-> ContentOf(cmd.inputs[i].path, files),
                 loop |-> cmd.inputs[i].loop]]]

\* run_ffmpeg(cmd): whether the engine exits 0; it cannot when an input is
\* missing, and may fail for any other reason (ok = FALSE)
run_ffmpeg(cmd, ok, files, assets) ==
    ok /\ \A i \in DOMAIN cmd.inputs : Exists(cmd.inputs[i].path, files, assets)

\* the OUT_DIR files a command reads
CmdReads(cmd) ==
    { cmd.inputs[i].path : i \in { j \in DOMAIN cmd.inputs : cmd.inputs[j].path.dir = "out" } }

(***************************************************************************)
(* The request handlers.                                                   *)
(***************************************************************************)
Max(a, b) == IF a >= b THEN a ELSE b

LocInit == [base |-> None, a1 |-> None, a2 |-> None, voice |-> None,
            music |-> None, out |-> None]
NoResp == [status |-> "none", err |-> "", url |-> None]

\* {"status": "ok", "<kind>_url": absolute_url(request, f"/files/{name}")}
Ok(name) == [status |-> "ok", err |-> "", url |-> name]

\* An exception leaving a handler: /video-cine-voice catches it and answers
\* {"status": "error", "message": str(e)}; the other endpoints let it reach
\* the framework (HTTP 500).  Neither answer holds a URL.
Failure(ep, err) ==
    [status |-> IF ep = "video_cine_voice" THEN "error" ELSE "exception",
     err |-> err, url |-> None]

VoiceEndpoints == {"reels_voice", "video_cine_voice"}

\* a renderer that does not clamp the number of frames
make_reels_video_styled_unclamped(duration) ==
    [kind |-> "video", frames |-> duration * fps]

\* make_reels_video_styled: the silent video it writes.  frames is clamped to
\* at least 1 and no duration is rejected.
make_reels_video_styled(duration) ==
    [kind |-> "video", frames |-> Max(1, duration * fps)]

\* openai_tts_to_file: the configuration error when the key is missing, else
\* the provider's answer
openai_tts_to_file(key, ok) ==
    IF ~key THEN "config" ELSE IF ok THEN "ok" ELSE "http"

SpeechClip(role) == [kind |-> "speech", role |-> role]

\* a handler that answers ok with whatever base video it has instead of failing
FailWithSwallowed(r, err, started) ==
    /\ pc' = [pc EXCEPT ![r] = "done"]
    /\ resp' = [resp EXCEPT ![r] = Ok(loc[r].base)]
    /\ trace' = [trace EXCEPT ![r] = @ \o started \o <<"failed">>]

\* an exception raised by a stage (after the events in started): nothing of
\* the handler runs after it
FailWith(r, err, started) ==
    /\ pc' = [pc EXCEPT ![r] = "failed"]
    /\ resp' = [resp EXCEPT ![r] = Failure(req[r].ep, err)]
    /\ trace' = [trace EXCEPT ![r] = @ \o started \o <<"failed">>]

Fail(r, err) == FailWith(r, err, << >>)

Advance(r, event, next) ==
    /\ pc' = [pc EXCEPT ![r] = next]
    /\ trace' = [trace EXCEPT ![r] = Append(@, event)]
    /\ UNCHANGED resp

\* a request arrives; pydantic accepts every body of Inputs
Receive(r, inp) ==
    /\ pc[r] = "idle"
    /\ req' = [req EXCEPT ![r] = inp]
    /\ pc' = [pc EXCEPT ![r] = "received"]
    /\ UNCHANGED <<env, loc, uuids, fs, resp, trace, reads, fin, fout>>

\* /reels, /reels-voice step 1: the base video
Render(r) ==
    /\ pc[r] = "received"
    /\ req[r].ep \in {"reels", "reels_voice"}
    /\ LET base_name == OutName("reels_", uuid4(r, uuids[r] + 1), "mp4") IN
        /\ uuids' = [uuids EXCEPT ![r] = @ + 1]
        /\ loc' = [loc EXCEPT ![r].base = base_name]
        /\ \E ok \in BOOLEAN :
            IF ok
            THEN /\ fs' = WriteFile(fs, base_name, make_reels_video_styled(req[r].duration), r)
                 /\ Advance(r, "render", "rendered")
            ELSE /\ Fail(r, "render")
                 /\ UNCHANGED fs
    /\ UNCHANGED <<env, req, reads, fin, fout>>

\* step 2: the narrator clip (in narrator_plus_character mode a1 and a2 are
\* named first; otherwise the clip is the voice track)
TtsNarrator(r) ==
    /\ pc[r] = "rendered"
    /\ req[r].ep \in VoiceEndpoints
    /\ \E ok \in BOOLEAN :
        LET npc == req[r].mode = "narrator_plus_character"
            a1 == safe_filename(uuid4(r, uuids[r] + 1), "mp3")
            a2 == safe_filename(uuid4(r, uuids[r] + 2), "mp3")
            res == openai_tts_to_file(env.openai_key, ok)
        IN  /\ uuids' = [uuids EXCEPT ![r] = @ + (IF npc THEN 2 ELSE 1)]
            /\ loc' = [loc EXCEPT ![r] = IF npc THEN [@ EXCEPT !.a1 = a1, !.a2 = a2]
                                          ELSE [@ EXCEPT !.voice = a1]]
            /\ IF res = "ok"
               THEN /\ fs' = WriteFile(fs, a1, SpeechClip("narrator"), r)
                    /\ Advance(r, "tts_narrator", IF npc THEN "narrated" ELSE "voiced")
               ELSE /\ Fail(r, res)
                    /\ UNCHANGED fs
    /\ UNCHANGED <<env, req, reads, fin, fout>>

\* the character clip (narrator_plus_character only)
TtsCharacter(r) ==
    /\ pc[r] = "narrated"
    /\ \E ok \in BOOLEAN :
        LET res == openai_tts_to_file(env.openai_key, ok) IN
            IF res = "ok"
            THEN /\ fs' = WriteFile(fs, loc[r].a2, SpeechClip("character"), r)
                 /\ Advance(r, "tts_character", "charactered")
            ELSE /\ Fail(r, res)
                 /\ UNCHANGED fs
    /\ UNCHANGED <<env, req, loc, uuids, reads, fin, fout>>

\* voice_path = concat_audios(a1, a2)
Concat(r) ==
    /\ pc[r] = "charactered"
    /\ LET voice_path == safe_filename(uuid4(r, uuids[r] + 1), "mp3")
           cmd == concat_audios(loc[r].a1, loc[r].a2, voice_path)
       IN  /\ uuids' = [uuids EXCEPT ![r] = @ + 1]
           /\ loc' = [loc EXCEPT ![r].voice = voice_path]
           /\ reads' = [reads EXCEPT ![r] = @ \cup CmdReads(cmd)]
           /\ \E ok \in BOOLEAN :
                IF run_ffmpeg(cmd, ok, fs, env.assets)
                THEN /\ fs' = WriteFile(fs, cmd.out, EngineOutput(cmd, fs), r)
                     /\ Advance(r, "concat", "voiced")
                ELSE /\ Fail(r, "ffmpeg")
                     /\ UNCHANGED fs
    /\ UNCHANGED <<env, req, fin, fout>>

\* music selected right after the base video, before any speech exists
SelectMusicEarly(r) ==
    /\ pc[r] = "rendered"
    /\ loc' = [loc EXCEPT ![r].music = choose_music_path(req[r].music, env.assets)]
    /\ Advance(r, "select_music", "selected")
    /\ UNCHANGED <<env, req, uuids, fs, reads, fin, fout>>

\* music_path = choose_music_path(req.music)
SelectMusic(r) ==
    /\ \/ pc[r] = "rendered" /\ req[r].ep = "reels"
       \/ pc[r] = "voiced" /\ req[r].ep \in VoiceEndpoints
    /\ loc' = [loc EXCEPT ![r].music = choose_music_path(req[r].music, env.assets)]
    /\ Advance(r, "select_music", "selected")
    /\ UNCHANGED <<env, req, uuids, fs, reads, fin, fout>>

OutPrefix(ep) ==
    IF ep = "reels" THEN "reels_music_"
    ELSE IF ep = "reels_voice" THEN "reels_voice_" ELSE "cine_voice_"

\* The effect of mux_video_audio's calls on OUT_DIR, written by request r:
\* whether run_ffmpeg raised, and the directory afterwards.
MuxEffect(m, ok, dir, assets, r) ==
    IF m.cmds # << >>
    THEN IF run_ffmpeg(m.cmds[1], ok, dir, assets)
         THEN [raised |-> FALSE,
               dir |-> WriteFile(dir, m.cmds[1].out, EngineOutput(m.cmds[1], dir), r)]
         ELSE [raised |-> TRUE, dir |-> dir]
    ELSE [raised |-> FALSE,
          dir |-> WriteFile(dir, m.copies[1].to, ContentOf(m.copies[1].from, dir), r)]

\* the OUT_DIR files mux_video_audio's calls read
MuxReads(m) ==
    IF m.cmds # << >> THEN CmdReads(m.cmds[1]) ELSE {m.copies[1].from}

\* the final mux and the answer; /reels reaches it only with a music_path
Mux(r) ==
    /\ pc[r] = "selected"
    /\ req[r].ep = "reels" => loc[r].music # None
    /\ LET out_name == OutName(OutPrefix(req[r].ep), uuid4(r, uuids[r] + 1), "mp4")
           m == mux_video_audio(loc[r].base, loc[r].voice, loc[r].music, out_name)
       IN  /\ uuids' = [uuids EXCEPT ![r] = @ + 1]
           /\ loc' = [loc EXCEPT ![r].out = out_name]
           /\ reads' = [reads EXCEPT ![r] = @ \cup MuxReads(m)]
           /\ \E ok \in BOOLEAN :
                LET e == MuxEffect(m, ok, fs, env.assets, r) IN
                    /\ fs' = e.dir
                    /\ IF e.raised
                       THEN FailWith(r, "ffmpeg", <<"mux_start">>)
                       ELSE /\ pc' = [pc EXCEPT ![r] = "done"]
                            /\ trace' = [trace EXCEPT ![r] = @ \o <<"mux_start", "mux_done">>]
                            /\ resp' = [resp EXCEPT ![r] = Ok(out_name)]
    /\ UNCHANGED <<env, req, fin, fout>>

\* /reels without a music_path: the base video is the answer
ReturnBase(r) ==
    /\ pc[r] = "selected"
    /\ req[r].ep = "reels"
    /\ loc[r].music = None
    /\ pc' = [pc EXCEPT ![r] = "done"]
    /\ resp' = [resp EXCEPT ![r] = Ok(loc[r].base)]
    /\ UNCHANGED <<env, req, loc, uuids, fs, trace, reads, fin, fout>>

\* /video-cine-voice: the key checks and the remote text-to-video job
CineSubmit(r) ==
    /\ pc[r] = "received"
    /\ req[r].ep = "video_cine_voice"
    /\ IF ~env.fal_key THEN Fail(r, "config_fal")
       ELSE IF ~env.openai_key THEN Fail(r, "config")
       ELSE \E result \in {"exception", "no_url", "url"} :
                IF result = "url" THEN Advance(r, "fal_submit", "submitted")
                ELSE Fail(r, result)
    /\ UNCHANGED <<env, req, loc, uuids, fs, reads, fin, fout>>

\* /video-cine-voice: download_to_file(src_video_url, base_path)
CineDownload(r) ==
    /\ pc[r] = "submitted"
    /\ LET base_name == OutName("cine_", uuid4(r, uuids[r] + 1), "mp4") IN
        /\ uuids' = [uuids EXCEPT ![r] = @ + 1]
        /\ loc' = [loc EXCEPT ![r].base = base_name]
        /\ \E ok \in BOOLEAN :
            IF ok
            THEN /\ fs' = WriteFile(fs, base_name, [kind |-> "cine"], r)
                 /\ Advance(r, "download", "rendered")
            ELSE /\ Fail(r, "download")
                 /\ UNCHANGED fs
    /\ UNCHANGED <<env, req, reads, fin, fout>>

\* /tts
Tts(r) ==
    /\ pc[r] = "received"
    /\ req[r].ep = "tts"
    /\ LET name == safe_filename(uuid4(r, uuids[r] + 1), "mp3") IN
        /\ uuids' = [uuids EXCEPT ![r] = @ + 1]
        /\ loc' = [loc EXCEPT ![r].out = name]
        /\ \E ok \in BOOLEAN :
            LET res == openai_tts_to_file(env.openai_key, ok) IN
                IF res = "ok"
                THEN /\ fs' = WriteFile(fs, name, SpeechClip("tts"), r)
                     /\ pc' = [pc EXCEPT ![r] = "done"]
                     /\ trace' = [trace EXCEPT ![r] = Append(@, "tts")]
                     /\ resp' = [resp EXCEPT ![r] = Ok(name)]
                ELSE /\ Fail(r, res)
                     /\ UNCHANGED fs
    /\ UNCHANGED <<env, req, reads, fin, fout>>

\* /image: the provider's answer is an HTTP error (always, without a key),
\* a body without b64_json, or a picture
Image(r) ==
    /\ pc[r] = "received"
    /\ req[r].ep = "image"
    /\ \E result \in (IF env.openai_key THEN {"http", "raw", "b64"} ELSE {"http"}) :
        LET name == safe_filename(uuid4(r, uuids[r] + 1), "png") IN
            IF result = "http"
            THEN /\ Fail(r, "http")
                 /\ UNCHANGED <<loc, uuids, fs>>
            ELSE IF result = "raw"
            THEN /\ pc' = [pc EXCEPT ![r] = "done"]
                 /\ resp' = [resp EXCEPT ![r] = Ok(None)]
                 /\ UNCHANGED <<loc, uuids, fs, trace>>
            ELSE /\ uuids' = [uuids EXCEPT ![r] = @ + 1]
                 /\ loc' = [loc EXCEPT ![r].out = name]
                 /\ fs' = WriteFile(fs, name, [kind |-> "png"], r)
                 /\ pc' = [pc EXCEPT ![r] = "done"]
                 /\ trace' = [trace EXCEPT ![r] = Append(@, "image")]
                 /\ resp' = [resp EXCEPT ![r] = Ok(name)]
    /\ UNCHANGED <<env, req, reads, fin, fout>>

\* GET /files/{name}: the file's bytes when the path exists
files(name) ==
    IF name \in DOMAIN fs THEN [status |-> "found", bytes |-> fs[name].content]
    ELSE [status |-> "error", bytes |-> None]

Handle(r) ==
    \/ Render(r)
    \/ TtsNarrator(r)
    \/ TtsCharacter(r)
    \/ Concat(r)
    \/ SelectMusic(r)
    \/ Mux(r)
    \/ ReturnBase(r)
    \/ CineSubmit(r)
    \/ CineDownload(r)
    \/ Tts(r)
    \/ Image(r)

\* the configurations the server can start in
Envs == [openai_key : BOOLEAN, fal_key : BOOLEAN, assets : SUBSET MusicAssets]

PipeIdle ==
    /\ req = [r \in Reqs |-> NoReq]
    /\ pc = [r \in Reqs |-> "idle"]
    /\ loc = [r \in Reqs |-> LocInit]
    /\ uuids = [r \in Reqs |-> 0]
    /\ fs = << >>
    /\ resp = [r \in Reqs |-> NoResp]
    /\ trace = [r \in Reqs |-> << >>]
    /\ reads = [r \in Reqs |-> {}]

(***************************************************************************)
(* Spec: one request, any body, any configuration.                         *)
(***************************************************************************)
Init ==
    /\ env \in Envs
    /\ PipeIdle
    /\ fin = None
    /\ fout = None

Next ==
    \/ \E inp \in Inputs : Receive(1, inp)
    \/ Handle(1)

Spec == Init /\ [][Next]_vars

(***************************************************************************)
(* SpecConc: NumReqs requests in flight at once, their steps interleaved.  *)
(* The bodies are those with a positive duration and music none or the     *)
(* default; the configuration has both keys and every music asset.         *)
(***************************************************************************)
ConcInputs ==
    { i \in Inputs :
        /\ i.ep \in {"reels", "reels_voice"} => i.duration = MaxDuration
        /\ i.music \in {"none", DefaultMusic} }

ConcEnvs == { e \in Envs : e.openai_key /\ e.fal_key /\ e.assets = MusicAssets }

InitConc ==
    /\ env \in ConcEnvs
    /\ PipeIdle
    /\ fin = None
    /\ fout = None

NextConc ==
    \E r \in Reqs :
        \/ \E inp \in ConcInputs : Receive(r, inp)
        \/ Handle(r)

SpecConc == InitConc /\ [][NextConc]_vars

(***************************************************************************)
(* SpecMux: mux_video_audio on its own, for every combination of a video,  *)
(* an optional voice track and an optional music track.                    *)
(***************************************************************************)
MuxVideoPath == OutName("reels_", uuid4(1, 1), "mp4")
MuxVoicePath == safe_filename(uuid4(1, 2), "mp3")
MuxOutPath == OutName("reels_voice_", uuid4(1, 3), "mp4")

\* the videos a handler passes: a rendered base video or a downloaded one
MuxVideos == { make_reels_video_styled(d) : d \in Durations } \cup { [kind |-> "cine"] }

\* the voice tracks a handler passes: a narrator clip or a concatenation
MuxVoices ==
    { SpeechClip("narrator"), SpeechClip("tts"),
      [kind |-> "ffmpeg", filter |-> "[0:a][1:a]concat=n=2:v=0:a=1[a]",
       maps |-> <<"[a]">>, shortest |-> FALSE, cv |-> "", ca |-> "libmp3lame",
       ins |-> << [bytes |-> SpeechClip("narrator"), loop |-> FALSE],
                  [bytes |-> SpeechClip("character"), loop |-> FALSE] >>] }

InitMux ==
    /\ env = [openai_key |-> TRUE, fal_key |-> TRUE, assets |-> MusicAssets]
    /\ req = [r \in Reqs |-> NoReq]
    /\ pc = [r \in Reqs |-> "idle"]
    /\ loc = [r \in Reqs |-> LocInit]
    /\ uuids = [r \in Reqs |-> 0]
    /\ resp = [r \in Reqs |-> NoResp]
    /\ trace = [r \in Reqs |-> << >>]
    /\ reads = [r \in Reqs |-> {}]
    /\ fout = None
    /\ \E video \in MuxVideos, voice \in MuxVoices \cup {None}, music \in MusicAssets \cup {None} :
        /\ fin = [video_path |-> MuxVideoPath,
                  voice_path |-> IF voice = None THEN None ELSE MuxVoicePath,
                  music_path |-> music,
                  out_path |-> MuxOutPath]
        /\ fs = IF voice = None
                THEN WriteFile(<< >>, MuxVideoPath, video, 1)
                ELSE WriteFile(WriteFile(<< >>, MuxVideoPath, video, 1), MuxVoicePath, voice, 1)

\* one call of mux_video_audio(video_path, voice_path, music_path, out_path)
MuxCall ==
    /\ fout = None
    /\ LET m == mux_video_audio(fin.video_path, fin.voice_path, fin.music_path, fin.out_path) IN
        \E ok \in BOOLEAN :
            LET e == MuxEffect(m, ok, fs, env.assets, 1) IN
                /\ fs' = e.dir
                /\ fout' = [calls |-> m.cmds, raised |-> e.raised]
    /\ UNCHANGED <<env, req, pc, loc, uuids, resp, trace, reads, fin>>

NextMux == MuxCall

SpecMux == InitMux /\ [][NextMux]_vars

\* C6: mux_video_audio makes one engine call for voice + music (looped music
\* ducked under the voice and mixed), one for voice only (voice mapped as the
\* audio), one for music only (looped music mapped), and none when there is
\* neither: then the output's bytes are the input video's.  Every engine call
\* copies the video stream, re-encodes the audio and stops at the shortest
\* stream.
C6_FourRecipes ==
    fout # None =>
        LET voice == fin.voice_path # None
            music == fin.music_path # None
            V == [path |-> fin.video_path, loop |-> FALSE]
            A == [path |-> fin.voice_path, loop |-> FALSE]
            M == [path |-> fin.music_path, loop |-> TRUE]
        IN  /\ (voice /\ music) =>
                /\ Len(fout.calls) = 1
                /\ fout.calls[1].inputs = <<V, A, M>>
                /\ fout.calls[1].filter = "[2:a]volume=0.25[m];[m][1:a]sidechaincompress=threshold=0.03:ratio=10:attack=20:release=250[mduck];[1:a][mduck]amix=inputs=2:duration=shortest[aout]"
                /\ fout.calls[1].maps = <<"0:v:0", "[aout]">>
            /\ (voice /\ ~music) =>
                /\ Len(fout.calls) = 1
                /\ fout.calls[1].inputs = <<V, A>>
                /\ fout.calls[1].filter = ""
                /\ fout.calls[1].maps = <<"0:v:0", "1:a:0">>
            /\ (~voice /\ music) =>
                /\ Len(fout.calls) = 1
                /\ fout.calls[1].inputs = <<V, M>>
                /\ fout.calls[1].filter = ""
                /\ fout.calls[1].maps = <<"0:v:0", "1:a:0">>
            /\ (~voice /\ ~music) =>
                /\ fout.calls = << >>
                /\ ~fout.raised
                /\ fin.out_path \in DOMAIN fs
                /\ fs[fin.out_path].content = fs[fin.video_path].content
            /\ \A i \in DOMAIN fout.calls :
                /\ fout.calls[i].cv = "copy"
                /\ fout.calls[i].ca = "aac"
                /\ fout.calls[i].shortest
                /\ fout.calls[i].out = fin.out_path

C6_Witness ==
    /\ fout # None
    /\ fin.voice_path = None
    /\ fin.music_path = None
    /\ fin.out_path \in DOMAIN fs
    /\ fs[fin.out_path].content = [kind |-> "video", frames |-> fps]

(***************************************************************************)
(* SpecEmoji: _auto_emojis applied to a text, and again to its own output. *)
(* A text is the sequence of its characters; an emoji is the sequence of   *)
(* its code points.                                                        *)
(***************************************************************************)
PRAY == <<"U+1F64F">>
SPARKLES == <<"U+2728">>
RAISED_HANDS == <<"U+1F64C">>
HEART == <<"U+2764", "U+FE0F">>
MUSCLE == <<"U+1F4AA">>
FIRE == <<"U+1F525">>
Emojis == {PRAY, SPARKLES, RAISED_HANDS, HEART, MUSCLE, FIRE}

\* str.lower() on the characters the texts are made of
LowerChar(c) ==
    IF c = "D" THEN "d"
    ELSE IF c = "F" THEN "f"
    ELSE IF c = "A" THEN "a"
    ELSE c

lower(text) == [i \in DOMAIN text |-> LowerChar(text[i])]

\* k in t
Contains(t, k) ==
    \E i \in 1..(Len(t) - Len(k) + 1) : SubSeq(t, i, i + Len(k) - 1) = k

\* the keyword lists of _auto_emojis
KeywordsFaith ==
    { <<"d", "i", "o", "s">>, <<"f", "e">>, <<"c", "r", "i", "s", "t", "o">>,
      <<"s", "e", "n~", "o", "r">>, <<"o", "r", "a", "c", "i", "o'", "n">>,
      <<"o", "r", "a", "c", "i", "o", "n">> }
KeywordsBlessing ==
    { <<"b", "e", "n", "d", "i", "c", "i", "o'", "n">>,
      <<"b", "e", "n", "d", "i", "c", "i", "o", "n">>,
      <<"m", "i", "l", "a", "g", "r", "o">> }
KeywordsLove ==
    { <<"a", "m", "o", "r">>, <<"f", "a", "m", "i", "l", "i", "a">>,
      <<"h", "i", "j", "o">>, <<"h", "i", "j", "a">> }
KeywordsStrength ==
    { <<"f", "u", "e", "r", "z", "a">>, <<"v", "a", "l", "i", "e", "n", "t", "e">>,
      <<"a'", "n", "i", "m", "o">>, <<"a", "n", "i", "m", "o">>,
      <<"s", "i", "g", "u", "e">> }

\* any(k in t for k in keywords)
AnyIn(keywords, t) == \E k \in keywords : Contains(t, k)

\* list(dict.fromkeys(picks)): each element once, at its first place
RECURSIVE Dedup(_)
Dedup(picks) ==
    IF picks = << >> THEN << >>
    ELSE LET front == Dedup(SubSeq(picks, 1, Len(picks) - 1))
             last == picks[Len(picks)]
         IN  IF \E i \in DOMAIN front : front[i] = last THEN front ELSE Append(front, last)

\* a slice that keeps every pick
TakeAll(s, n) == s

\* picks[:n]
Take(s, n) == SubSeq(s, 1, IF Len(s) < n THEN Len(s) ELSE n)

\* ' '.join(parts)
RECURSIVE Join(_)
Join(parts) ==
    IF parts = << >> THEN << >>
    ELSE IF Len(parts) = 1 THEN parts[1]
    ELSE parts[1] \o <<" ">> \o Join(Tail(parts))

\* the picks of _auto_emojis before the text is rebuilt
EmojiPicks(text) ==
    LET t == lower(text)
        picks == (IF AnyIn(KeywordsFaith, t) THEN <<PRAY, SPARKLES>> ELSE << >>)
                 \o (IF AnyIn(KeywordsBlessing, t) THEN <<RAISED_HANDS>> ELSE << >>)
                 \o (IF AnyIn(KeywordsLove, t) THEN <<HEART>> ELSE << >>)
                 \o (IF AnyIn(KeywordsStrength, t) THEN <<MUSCLE, FIRE>> ELSE << >>)
    IN  Take(Dedup(picks), 2)

\* _auto_emojis(text)
_auto_emojis(text) ==
    LET picks == EmojiPicks(text) IN
        IF picks # << >> THEN text \o <<" ">> \o Join(picks) ELSE text

\* the words texts are made of
Vocabulary ==
    { <<"D", "i", "o", "s">>, <<"c", "a", "f", "e">>, <<"A", "m", "o", "r">>,
      <<"s", "i", "g", "u", "e">>, <<"m", "i", "l", "a", "g", "r", "o">>,
      <<"h", "o", "l", "a">> }

Texts == { Join(ws) : ws \in UNION { [1..n -> Vocabulary] : n \in 0..MaxWords } }

InitEmoji ==
    /\ env = [openai_key |-> TRUE, fal_key |-> TRUE, assets |-> MusicAssets]
    /\ PipeIdle
    /\ fin \in Texts
    /\ fout = << >>

\* text = _auto_emojis(text), on the request's text and then on its own output
ApplyEmoji ==
    /\ Len(fout) < MaxApplications
    /\ fout' = Append(fout, _auto_emojis(IF fout = << >> THEN fin ELSE fout[Len(fout)]))
    /\ UNCHANGED <<pipeVars, fin>>

NextEmoji == ApplyEmoji

SpecEmoji == InitEmoji /\ [][NextEmoji]_vars

\* how many times emoji e occurs in text
Count(e, text) ==
    Cardinality({ i \in 1..(Len(text) - Len(e) + 1) : SubSeq(text, i, i + Len(e) - 1) = e })

\* C10: applying _auto_emojis to its own output adds no second copy of an
\* emoji: each emoji occurs as often after two applications as after one.
C10_IdempotentPerCategory ==
    Len(fout) >= 2 => \A e \in Emojis : Count(e, fout[2]) = Count(e, fout[1])

(***************************************************************************)
(* Properties of the pipeline.                                             *)
(***************************************************************************)
IsPrefix(s, t) == Len(s) <= Len(t) /\ SubSeq(t, 1, Len(s)) = s
Range(s) == { s[i] : i \in DOMAIN s }
Terminal(r) == pc[r] \in {"done", "failed"}

\* the stages a request completed: its trace without the closing "failed"
Completed(r) ==
    IF trace[r] # << >> /\ trace[r][Len(trace[r])] = "failed"
    THEN SubSeq(trace[r], 1, Len(trace[r]) - 1)
    ELSE trace[r]

\* the OUT_DIR files request r wrote
FilesOf(r) == { n \in DOMAIN fs : r \in Range(fs[n].writers) }

\* Received -> Rendering -> Synthesizing -> Selecting(music) -> Compositing -> Done
StagesOfReelsVoice(mode) ==
    IF mode = "narrator_plus_character"
    THEN <<"render", "tts_narrator", "tts_character", "concat", "select_music",
           "mux_start", "mux_done">>
    ELSE <<"render", "tts_narrator", "select_music", "mux_start", "mux_done">>

\* C1: in /reels-voice the stages complete in the fixed order render, speech
\* synthesis (narrator, then character and concat in narrator_plus_character
\* mode), music selection, mux: Compositing starts only after all of them, and
\* the request is Done only after the mux has completed; none is skipped.
C1_StageOrder ==
    \A r \in Reqs :
        req[r].ep = "reels_voice" =>
            /\ IsPrefix(Completed(r), StagesOfReelsVoice(req[r].mode))
            /\ pc[r] = "done" =>
                /\ Completed(r) = StagesOfReelsVoice(req[r].mode)
                /\ trace[r] = Completed(r)

C1_Witness ==
    \E r \in Reqs :
        /\ req[r].ep = "reels_voice"
        /\ req[r].mode = "narrator_plus_character"
        /\ pc[r] = "done"
        /\ "mux_done" \in Range(trace[r])

\* the errors a stage can raise, by the last stage that completed before it
OriginErrors(ep, done) ==
    IF done = << >>
    THEN (IF ep = "video_cine_voice" THEN {"config_fal", "config", "exception", "no_url"}
          ELSE IF ep \in {"reels", "reels_voice"} THEN {"render"}
          ELSE {"config", "http"})
    ELSE LET last == done[Len(done)] IN
         IF last = "fal_submit" THEN {"download"}
         ELSE IF last \in {"render", "download", "tts_narrator"} THEN {"config", "http"}
         ELSE IF last \in {"tts_character", "select_music", "mux_start"} THEN {"ffmpeg"}
         ELSE {}

\* the stages of a request that is answered ok
StagesOf(ep, mode, muxed) ==
    IF ep = "reels_voice" THEN StagesOfReelsVoice(mode)
    ELSE IF ep = "video_cine_voice"
    THEN <<"fal_submit", "download">> \o Tail(StagesOfReelsVoice(mode))
    ELSE IF muxed THEN <<"render", "select_music", "mux_start", "mux_done">>
    ELSE <<"render", "select_music">>

PipelineEndpoints == {"reels", "reels_voice", "video_cine_voice"}

\* C2: in /reels, /reels-voice and /video-cine-voice a failing stage ends the
\* request as Failed with that stage's error, nothing is started after it, and
\* the answer holds no URL; an ok answer with a URL means every stage succeeded.
C2_FailFast ==
    \A r \in Reqs :
        req[r].ep \in PipelineEndpoints =>
            /\ "failed" \in Range(trace[r]) =>
                /\ pc[r] = "failed"
                /\ "failed" \notin Range(Completed(r))
                /\ resp[r].status \in {"exception", "error"}
                /\ resp[r].url = None
                /\ resp[r].err \in OriginErrors(req[r].ep, Completed(r))
            /\ resp[r].status = "ok" =>
                /\ pc[r] = "done"
                /\ resp[r].url \in DOMAIN fs
                /\ trace[r] = StagesOf(req[r].ep, req[r].mode, loc[r].out # None)

C2_Witness ==
    \E r \in Reqs :
        /\ req[r].ep = "reels_voice"
        /\ pc[r] = "failed"
        /\ resp[r].err = "ffmpeg"
        /\ trace[r] = <<"render", "tts_narrator", "select_music", "mux_start", "failed">>

\* C3: when OPENAI_API_KEY is missing, a narrated request fails with the
\* configuration error and no file of that request exists in OUT_DIR.
C3_NoPartialAsset ==
    \A r \in Reqs :
        (req[r].ep \in VoiceEndpoints /\ resp[r].err = "config") => FilesOf(r) = {}

\* the asset a music kind names
AssetOf(kind) ==
    IF kind = "soft" THEN MUSIC_SOFT
    ELSE IF kind = "cinematic" THEN MUSIC_CINEMATIC
    ELSE MUSIC_HAPPY

MusicMissing(r) == req[r].music = "none" \/ AssetOf(req[r].music) \notin env.assets

\* C4 as stated: a /reels request whose video was rendered always completes
\* successfully, whether the music asset is missing or the music mux fails.
C4_AlwaysSilentVideo ==
    \A r \in Reqs :
        (req[r].ep = "reels" /\ Terminal(r) /\ "render" \in Range(trace[r]))
            => resp[r].status = "ok"

\* C4 (amended): a /reels request whose video was rendered and whose music
\* asset does not exist completes with the rendered silent video; when the
\* asset exists the answer is the muxed video or, if the mux fails, the
\* engine's error.  A narration failure in /reels-voice fails the request.
C4_SilentVideoWhenMusicMissing ==
    \A r \in Reqs :
        /\ (req[r].ep = "reels" /\ Terminal(r) /\ "render" \in Range(trace[r])) =>
            IF MusicMissing(r)
            THEN /\ resp[r] = Ok(loc[r].base)
                 /\ files(loc[r].base) =
                        [status |-> "found",
                         bytes |-> [kind |-> "video", frames |-> Max(1, req[r].duration * fps)]]
            ELSE \/ resp[r] = Ok(loc[r].out) /\ loc[r].out \in DOMAIN fs
                 \/ resp[r] = Failure("reels", "ffmpeg")
        /\ (req[r].ep = "reels_voice" /\ Terminal(r)
                /\ "render" \in Range(trace[r]) /\ "select_music" \notin Range(trace[r])) =>
            /\ pc[r] = "failed"
            /\ resp[r].status = "exception"

C4_Witness ==
    \E r \in Reqs :
        /\ req[r].ep = "reels"
        /\ req[r].music = "soft"
        /\ MUSIC_SOFT \notin env.assets
        /\ pc[r] = "done"
        /\ resp[r] = Ok(loc[r].base)

\* C5: a /reels or /reels-voice request with duration <= 0 is rejected before
\* rendering: no writer is opened and no frame is rendered for it.
C5_NoRenderForNonPositiveDuration ==
    \A r \in Reqs :
        (req[r].ep \in {"reels", "reels_voice"} /\ req[r].duration <= 0) =>
            /\ "render" \notin Range(trace[r])
            /\ loc[r].base \notin DOMAIN fs

\* C7: in narrator_plus_character mode the narrator clip is synthesized before
\* the character clip and the voice track is concat(narrator, character) in
\* that order, concat running only once both clips exist; in narrator_only
\* mode the narrator clip is the voice track, and there is no character clip
\* and no concat.  The compositor receives that voice track.
C7_NarratorThenCharacter ==
    \A r \in Reqs :
        req[r].ep \in VoiceEndpoints =>
            /\ req[r].mode = "narrator_plus_character" =>
                /\ loc[r].a2 \in DOMAIN fs =>
                    /\ loc[r].a1 \in DOMAIN fs
                    /\ fs[loc[r].a1].content = SpeechClip("narrator")
                    /\ fs[loc[r].a2].content = SpeechClip("character")
                /\ loc[r].voice # None =>
                    /\ loc[r].a1 \in DOMAIN fs
                    /\ loc[r].a2 \in DOMAIN fs
                /\ loc[r].voice \in DOMAIN fs =>
                    /\ fs[loc[r].voice].content.filter = "[0:a][1:a]concat=n=2:v=0:a=1[a]"
                    /\ fs[loc[r].voice].content.ins =
                         << [bytes |-> SpeechClip("narrator"), loop |-> FALSE],
                            [bytes |-> SpeechClip("character"), loop |-> FALSE] >>
            /\ req[r].mode = "narrator_only" =>
                /\ loc[r].a1 = None
                /\ loc[r].a2 = None
                /\ "concat" \notin Range(trace[r])
                /\ \A n \in FilesOf(r) : fs[n].content # SpeechClip("character")
                /\ loc[r].voice \in DOMAIN fs => fs[loc[r].voice].content = SpeechClip("narrator")
            /\ loc[r].out \in DOMAIN fs =>
                fs[loc[r].out].content.ins[2] =
                    [bytes |-> fs[loc[r].voice].content, loop |-> FALSE]

C7_Witness ==
    \E r \in Reqs :
        /\ req[r].ep = "reels_voice"
        /\ req[r].mode = "narrator_plus_character"
        /\ pc[r] = "done"
        /\ loc[r].voice \in DOMAIN fs
        /\ loc[r].out \in DOMAIN fs

\* the scratch files of a request: base video, narrator clip, character clip,
\* voice track
Scratch(r) == {loc[r].base, loc[r].a1, loc[r].a2, loc[r].voice} \ {None}

\* C9: once a request is Done with a muxed final asset, none of its scratch
\* files is retrievable through /files any more.
C9_ScratchNotRetrievable ==
    \A r \in Reqs :
        (req[r].ep \in PipelineEndpoints /\ pc[r] = "done" /\ loc[r].out # None) =>
            \A n \in Scratch(r) : files(n).status # "found"

\* the OUT_DIR names a request has generated
NamesOf(r) == {loc[r].base, loc[r].a1, loc[r].a2, loc[r].voice, loc[r].out} \ {None}
NameCount(r) ==
    Cardinality({ f \in {"base", "a1", "a2", "voice", "out"} : loc[r][f] # None })

\* C8: under any interleaving of concurrent requests every OUT_DIR file is
\* written once, by one request, under a name of its own: the names a request
\* generates are pairwise distinct and disjoint from every other request's, and
\* a request reads as input only files it wrote itself.
C8_FreshNames ==
    /\ \A n \in DOMAIN fs : Len(fs[n].writers) = 1
    /\ \A r \in Reqs :
        /\ Cardinality(NamesOf(r)) = NameCount(r)
        /\ \A n \in reads[r] : n \in DOMAIN fs /\ fs[n].writers = <<r>>
        /\ \A n \in NamesOf(r) : n \in DOMAIN fs => fs[n].writers = <<r>>
        /\ \A q \in Reqs \ {r} : NamesOf(r) \cap NamesOf(q) = {}

C8_Witness ==
    \E r \in Reqs, q \in Reqs :
        /\ r # q
        /\ pc[r] = "narrated"
        /\ pc[q] = "charactered"
        /\ Cardinality(FilesOf(r)) = 2
        /\ Cardinality(FilesOf(q)) = 3

(***************************************************************************)
(* Properties of _auto_emojis (SpecEmoji).                                 *)
(***************************************************************************)
\* the text an application of _auto_emojis started from
EmojiInput(i) == IF i = 1 THEN fin ELSE fout[i - 1]

\* what an application appended to its input
Appended(i) == SubSeq(fout[i], Len(EmojiInput(i)) + 1, Len(fout[i]))

\* the emoji of each keyword category
CategoryEmojis ==
    { {PRAY, SPARKLES}, {RAISED_HANDS}, {HEART}, {MUSCLE, FIRE} }

MatchesNoCategory(text) ==
    ~ AnyIn(KeywordsFaith \cup KeywordsBlessing \cup KeywordsLove \cup KeywordsStrength,
            lower(text))

\* C11 as stated: of the emoji one application appends, each category
\* contributes at most one.
C11_OnePerCategory ==
    \A i \in DOMAIN fout :
        \A cat \in CategoryEmojis :
            Cardinality({ e \in cat : Count(e, Appended(i)) > 0 }) <= 1

\* C11 (amended): one application of _auto_emojis keeps the text and appends
\* to its end, once, a space and one emoji, or a space and two distinct emoji
\* separated by a space (both may come from the same category); it appends
\* nothing exactly when the text matches no category.
C11_AtMostTwoDistinct ==
    \A i \in DOMAIN fout :
        /\ IsPrefix(EmojiInput(i), fout[i])
        /\ \/ Appended(i) = << >>
           \/ \E e \in Emojis : Appended(i) = <<" ">> \o e
           \/ \E e1 \in Emojis, e2 \in Emojis :
                /\ e1 # e2
                /\ Appended(i) = <<" ">> \o e1 \o <<" ">> \o e2
        /\ MatchesNoCategory(EmojiInput(i)) <=> fout[i] = EmojiInput(i)

C11_Witness ==
    /\ fin = <<"A", "m", "o", "r", " ", "D", "i", "o", "s">>
    /\ Len(fout) >= 1
    /\ fout[1] = fin \o <<" ">> \o PRAY \o <<" ">> \o SPARKLES

(***************************************************************************)
(* SpecWrap: _wrap_text on its own.  A text is the sequence of its         *)
(* characters; the font is one whose "W" is twice as wide as its other     *)
(* characters.                                                             *)
(***************************************************************************)
\* the advance width of a character in the font
CharWidth(c) == IF c = "W" THEN 2 ELSE 1

\* bbox = draw.textbbox((0, 0), s, font=font); bbox[2] - bbox[0]
RECURSIVE TextWidth(_)
TextWidth(s) ==
    IF s = << >> THEN 0 ELSE CharWidth(Head(s)) + TextWidth(Tail(s))

\* text.split(): the maximal runs of non-space characters
RECURSIVE Split(_)
Split(text) ==
    IF text = << >> THEN << >>
    ELSE LET front == SubSeq(text, 1, Len(text) - 1)
             c == text[Len(text)]
             ws == Split(front)
         IN  IF c = " " THEN ws
             ELSE IF front # << >> /\ front[Len(front)] # " "
             THEN [ws EXCEPT ![Len(ws)] = @ \o <<c>>]
             ELSE Append(ws, <<c>>)

\* s.strip()
RECURSIVE Strip(_)
Strip(s) ==
    IF s = << >> THEN << >>
    ELSE IF Head(s) = " " THEN Strip(Tail(s))
    ELSE IF s[Len(s)] = " " THEN Strip(SubSeq(s, 1, Len(s) - 1))
    ELSE s

\* a comparison that lets a line be one unit too wide
WithinWidthOffByOne(width, max_width) == width <= max_width + 1

\* (bbox[2] - bbox[0]) <= max_width
WithinWidth(width, max_width) == width <= max_width

\* the for loop of _wrap_text over the words left, and the closing "if cur"
RECURSIVE WrapLoop(_, _, _, _)
WrapLoop(words, cur, lines, max_width) ==
    IF words = << >>
    THEN IF cur # << >> THEN Append(lines, cur) ELSE lines
    ELSE LET w == Head(words)
             test == Strip(cur \o <<" ">> \o w)
         IN  IF WithinWidth(TextWidth(test), max_width)
             THEN WrapLoop(Tail(words), test, lines, max_width)
             ELSE WrapLoop(Tail(words), w,
                           IF cur # << >> THEN Append(lines, cur) ELSE lines,
                           max_width)

\* _wrap_text(draw, text, font, max_width)
_wrap_text(text, max_width) ==
    Take(WrapLoop(Split(text), << >>, << >>, max_width), 8)

\* the words the texts are made of: a narrow one and a wide one
WrapVocabulary == { <<"a">>, <<"W", "W">> }

WrapTexts ==
    { Join(ws) : ws \in UNION { [1..n -> WrapVocabulary] : n \in 0..MaxWrapWords } }

InitWrap ==
    /\ env = [openai_key |-> TRUE, fal_key |-> TRUE, assets |-> MusicAssets]
    /\ PipeIdle
    /\ fin \in [text : WrapTexts, max_width : 1..MaxWrapWidth]
    /\ fout = [called |-> FALSE, lines |-> << >>]

\* lines = _wrap_text(draw, text, font, max_width=max_width)
WrapCall ==
    /\ ~fout.called
    /\ fout' = [called |-> TRUE, lines |-> _wrap_text(fin.text, fin.max_width)]
    /\ UNCHANGED <<pipeVars, fin>>

NextWrap == WrapCall

SpecWrap == InitWrap /\ [][NextWrap]_vars

\* C12: every line _wrap_text returns is at most max_width wide, or is a
\* single word that is itself wider than max_width; there are at most 8
\* lines, and the lines joined by spaces are the words of the text in their
\* order: all of them when fewer than 8 lines are returned, a prefix of them
\* otherwise.
C12_LinesFit ==
    fout.called =>
        LET words == Split(fin.text)
            lines == fout.lines
        IN  /\ \A i \in DOMAIN lines :
                \/ TextWidth(lines[i]) <= fin.max_width
                \/ /\ " " \notin Range(lines[i])
                   /\ lines[i] \in Range(words)
            /\ \A i \in DOMAIN lines : lines[i] # << >>
            /\ Len(lines) <= 8
            /\ IsPrefix(Split(Join(lines)), words)
            /\ Len(lines) < 8 => Split(Join(lines)) = words

C12_Witness ==
    /\ fout.called
    /\ Len(Split(fin.text)) = 10
    /\ Len(fout.lines) = 8
    /\ " " \in Range(fout.lines[1])
    /\ TextWidth(fout.lines[2]) > fin.max_width
    /\ Len(Split(Join(fout.lines))) = 9

(***************************************************************************)
(* SpecFrames: the frame loop of make_reels_video_styled, one step per     *)
(* statement that touches the writer.  fout.appended is the sequence of    *)
(* frame indices handed to writer.append_data.                             *)
(***************************************************************************)
FrameDurations == (0 - MaxFrameDuration)..MaxFrameDuration

InitFrames ==
    /\ env = [openai_key |-> TRUE, fal_key |-> TRUE, assets |-> MusicAssets]
    /\ PipeIdle
    /\ fin \in FrameDurations
    /\ fout = [writer |-> "none", frames |-> 0, i |-> 0, appended |-> << >>,
               raised |-> FALSE]

\* frames = max(1, duration * fps); writer = imageio.get_writer(...)
OpenWriter ==
    /\ fout.writer = "none"
    /\ fout' = [fout EXCEPT !.writer = "open",
                            !.frames = make_reels_video_styled(fin).frames]
    /\ UNCHANGED <<pipeVars, fin>>

\* one iteration of "for i in range(frames)": the frame of index i is drawn
\* and handed to writer.append_data
AppendFrame ==
    /\ fout.writer = "open"
    /\ ~fout.raised
    /\ fout.i < fout.frames
    /\ fout' = [fout EXCEPT !.appended = Append(@, fout.i), !.i = @ + 1]
    /\ UNCHANGED <<pipeVars, fin>>

\* drawing or encoding the frame of index i raises: the function is left
\* with the writer still open
FrameRaise ==
    /\ fout.writer = "open"
    /\ ~fout.raised
    /\ fout.i < fout.frames
    /\ fout' = [fout EXCEPT !.raised = TRUE]
    /\ UNCHANGED <<pipeVars, fin>>

\* writer.close(), after the loop
CloseWriter ==
    /\ fout.writer = "open"
    /\ ~fout.raised
    /\ fout.i >= fout.frames
    /\ fout' = [fout EXCEPT !.writer = "closed"]
    /\ UNCHANGED <<pipeVars, fin>>

NextFrames ==
    \/ OpenWriter
    \/ AppendFrame
    \/ FrameRaise
    \/ CloseWriter

SpecFrames == InitFrames /\ [][NextFrames]_vars

\* C13: for every duration d, the frames handed to the encoder are at every
\* moment the frames of indices 0, 1, 2, ... in that order, each once, and
\* never more than N = max(1, d * 24) of them; the writer is closed only
\* when all N of them, and so at least one, have been appended.
C13_FramesInOrder ==
    LET N == IF fin * 24 >= 1 THEN fin * 24 ELSE 1
    IN  /\ \A k \in DOMAIN fout.appended : fout.appended[k] = k - 1
        /\ Len(fout.appended) <= N
        /\ fout.writer = "closed" =>
              /\ Len(fout.appended) = N
              /\ Len(fout.appended) >= 1

C13_Witness ==
    /\ fin = 1
    /\ fout.writer = "closed"
    /\ Len(fout.appended) = 24
    /\ fout.appended[1] = 0
    /\ fout.appended[24] = 23

====
